---- MODULE Spec2Model ----
(***************************************************************************)
(* The question-rotation engine of the group questions bot (src/main.py)   *)
(* and the seed script (src/write_questions_to_db.py).                     *)
(*                                                                         *)
(* The three MongoDB collections are the shared state: question_templates, *)
(* participants, asked_questions.  The daily job, the command handlers and *)
(* the seed script act on them.  The job's synchronous code runs one       *)
(* database call per step, and the seed script (another process) may run   *)
(* between any two calls; command handlers run only while the job awaits.  *)
(* Under Spec the store answers every call; under SpecOutage any call may  *)
(* fail (the store is unreachable or raises: `up` is FALSE).               *)
(* SpecBot is the bot alone on a store the seed script has left, with the  *)
(* handlers' replies recorded; SpecFair is Spec with a job that is not     *)
(* stopped between its steps.                                              *)
(* Python values that may be None are sequences of length 0 (None) or 1.   *)
(***************************************************************************)
EXTENDS Integers, Sequences, FiniteSets, TLC

\* ---------------------------------------------------------------- bounds
\* The Telegram users, 1..NumUsers.
NumUsers == 3

Users == 1..NumUsers

\* The chats the bot is in, and the users that can send commands in each.
Chats == {"c1", "c2"}

ChatMembers(c) == IF c = "c1" THEN Users ELSE {1}

\* user.first_name of each user: users 1 and 3 share a first name.
first_name(u) == CASE u = 2 -> "Bob" [] u = 4 -> "Cy" [] u = 5 -> "Dee" [] OTHER -> "Ann"

\* Seeds of the per-process string hash: each run of the seed script is a new
\* process and draws one.
HashSeeds == {0, 1}

\* ------------------------------------------------------ python helpers
None == <<>>

Some(x) == <<x>>

\* Python truthiness of an optional integer: None and 0 are falsy.
Truthy(h) == h # None /\ h[1] # 0

Min(a, b) == IF a < b THEN a ELSE b

RECURSIVE SetToSeq(_)
SetToSeq(S) ==
    IF S = {} THEN <<>>
    ELSE LET m == CHOOSE x \in S : \A y \in S : x <= y
         IN  <<m>> \o SetToSeq(S \ {m})

Range(s) == {s[i] : i \in 1..Len(s)}

\* ------------------------------------------------------------ the seed
\* The placeholder token of a question text.
Placeholder == "{member}"

\* questions.QUESTION_TEMPLATES: question texts are token sequences.  The
\* seed script loads a non-empty prefix of this list.
QUESTION_TEMPLATES ==
    << [question |-> <<"Who is the funniest?">>, type |-> "member_options",
        options |-> <<>>],
       [question |-> <<"Is ", Placeholder, " lazy?">>, type |-> "custom_options",
        options |-> <<"Yes", "No">>],
       [question |-> <<"Guess!">>, type |-> "quiz", options |-> <<>>] >>

\* hash(q["question"]) in a process whose string-hash seed is `seed`: distinct
\* texts get distinct values, and the value changes with the seed.
hash(i, seed) == (i - 1) + seed

HashVals == {hash(i, seed) : i \in 1..Len(QUESTION_TEMPLATES), seed \in HashSeeds}

\* ---------------------------------------------------------------- state
VARIABLES
    templates,        \* question_templates: set of documents
    participants,     \* participants: [chat -> [user -> number of documents]]
    ledger,           \* asked_questions: [chat -> [hash -> number of documents]]
    outage,           \* store calls may fail in this run of the system
    reply,            \* the latest reply_text of a command handler
    migPc,            \* the seed script: "idle" | "cleared"
    jobPc,            \* the daily job's position
    queue,            \* active_chats still to be served, the head is being served
    asked_hashes,     \* local of get_random_question_from_db
    template,         \* the drawn template (None or Some)
    question,         \* generate_random_question's result: question text
    options,          \*   options
    question_hash,    \*   template hash (None or Some)
    outcome,          \* of the delivery being served or just served
    sendLog,          \* the send_poll calls of this delivery: <<destination, result>>
    marks,            \* asked-records written by this delivery
    resets,           \* ledger resets performed by this delivery
    ledger0,          \* the chat's ledger row when this delivery started
    undisturbed,      \* no failed store call and no seed-script step during this delivery
    lastUp            \* the store answered the job's latest call

vars == <<templates, participants, ledger, outage, reply, migPc, jobPc, queue,
          asked_hashes, template, question, options, question_hash,
          outcome, sendLog, marks, resets, ledger0, undisturbed, lastUp>>

\* What no step of the job or of the seed script touches.
envVars == <<outage, reply>>

storeVars == <<templates, participants, ledger, envVars>>

\* What a store call may do: answer (TRUE), or fail (FALSE).
Ups == IF outage THEN BOOLEAN ELSE {TRUE}

localVars == <<asked_hashes, template, question, options, question_hash>>

histVars == <<outcome, sendLog, marks, resets, ledger0>>

\* The positions at which the job awaits (send_poll, asyncio.sleep) or is not
\* running: only there can a command handler run.
AwaitPcs == {"idle", "send1", "send2", "sleep"}

EmptyRow == [h \in HashVals |-> 0]

NoQuestion == <<>>

InitState ==
    /\ templates = {}
    /\ participants = [c \in Chats |-> [u \in Users |-> 0]]
    /\ ledger = [c \in Chats |-> EmptyRow]
    /\ migPc = "idle"
    /\ jobPc = "idle"
    /\ queue = <<>>
    /\ asked_hashes = {}
    /\ template = None
    /\ question = NoQuestion
    /\ options = <<>>
    /\ question_hash = None
    /\ outcome = "none"
    /\ sendLog = <<>>
    /\ marks = 0
    /\ resets = 0
    /\ ledger0 = EmptyRow
    /\ undisturbed = TRUE
    /\ lastUp = TRUE

\* Replies are outputs: the program never reads them.  They are recorded in
\* the runs of SpecBot and left unobserved in the others.
Unobserved == "unobserved"

NoReply == "none"

Init == InitState /\ outage = FALSE /\ reply = Unobserved

InitOutage == InitState /\ outage = TRUE /\ reply = Unobserved


\* ------------------------------------------------------------ the store
\* `up`: the store answers this call.  Otherwise the call raises (or db is
\* None) and the function returns its no-data result.

get_asked_question_hashes(chat_id, up) ==
    IF up THEN {h \in HashVals : ledger[chat_id][h] > 0} ELSE {}

\* Faulty variant: insert_one instead of the upsert.
mark_inserting(led, chat_id, h, up) ==
    IF up THEN [led EXCEPT ![chat_id][h] = @ + 1] ELSE led

\* update_one(..., upsert=True): the matching document is updated in place,
\* and one is inserted only when none matches.
mark_question_as_asked(led, chat_id, h, up) ==
    IF up THEN [led EXCEPT ![chat_id][h] = IF @ = 0 THEN 1 ELSE @] ELSE led

\* mark_question_as_asked's return value: True unless the call raised.
mark_question_as_asked_result(chat_id, h, up) == up

\* Faulty variant: delete_many({}) without the chat_id filter.
reset_all_chats(led, chat_id, up) ==
    IF up THEN [c \in Chats |-> EmptyRow] ELSE led

\* Faulty variant: the reset deletes nothing.
reset_nothing(led, chat_id, up) == led

\* delete_many({"chat_id": chat_id})
reset_asked_questions(led, chat_id, up) ==
    IF up THEN [led EXCEPT ![chat_id] = EmptyRow] ELSE led

\* reset_asked_questions' return value: True unless the call raised.
reset_asked_questions_result(chat_id, up) == up

is_user_participating(user_id, chat_id, up) ==
    up /\ participants[chat_id][user_id] > 0

\* Faulty variant: insert_one instead of the upsert.
add_inserting(reg, user_id, chat_id, up) ==
    IF up THEN [reg EXCEPT ![chat_id][user_id] = @ + 1] ELSE reg

\* update_one(..., upsert=True)
add_participant(reg, user_id, chat_id, up) ==
    IF up THEN [reg EXCEPT ![chat_id][user_id] = IF @ = 0 THEN 1 ELSE @] ELSE reg

\* add_participant's return value: True unless the call raised.
add_participant_result(user_id, chat_id, up) == up

\* delete_one: removes one matching document.
remove_participant(reg, user_id, chat_id, up) ==
    IF up THEN [reg EXCEPT ![chat_id][user_id] = IF @ > 0 THEN @ - 1 ELSE @] ELSE reg

\* remove_participant's return value: result.deleted_count > 0.
remove_participant_result(reg, user_id, chat_id, up) ==
    up /\ reg[chat_id][user_id] > 0

RECURSIVE Repeat(_, _)
Repeat(x, n) == IF n <= 0 THEN <<>> ELSE <<x>> \o Repeat(x, n - 1)

RECURSIVE NamesOf(_, _)
NamesOf(chat_id, us) ==
    IF us = <<>> THEN <<>>
    ELSE Repeat(first_name(Head(us)), participants[chat_id][Head(us)])
             \o NamesOf(chat_id, Tail(us))

\* One name per participant document of the chat (in user order).
get_participants_names(chat_id, up) ==
    IF up THEN NamesOf(chat_id, SetToSeq(Users)) ELSE <<>>

RECURSIVE SumRow(_, _)
SumRow(row, S) ==
    IF S = {} THEN 0
    ELSE LET x == CHOOSE y \in S : TRUE IN row[x] + SumRow(row, S \ {x})

get_participants_count(chat_id, up) ==
    IF up THEN SumRow(participants[chat_id], Users) ELSE 0

\* distinct("chat_id") over the participants collection
get_all_active_chats(up) ==
    IF up THEN {c \in Chats : \E u \in Users : participants[c][u] > 0} ELSE {}

\* ------------------------------------------------------- the environment
\* A seed-script step while a delivery is being served disturbs it.
Disturbed == IF jobPc = "idle" THEN undisturbed ELSE FALSE

\* migrate_questions, first call: collection.delete_many({}).
migrate_delete ==
    /\ migPc = "idle"
    /\ templates' = {}
    /\ migPc' = "cleared"
    /\ undisturbed' = Disturbed
    /\ UNCHANGED <<participants, ledger, envVars, jobPc, queue, localVars, histVars,
                   lastUp>>

\* The documents insert_many is given: the first n templates, each with the
\* hash of its text in this process.
SeedDocs(n, seed) ==
    { [question |-> QUESTION_TEMPLATES[i].question,
       type     |-> QUESTION_TEMPLATES[i].type,
       options  |-> QUESTION_TEMPLATES[i].options,
       hash     |-> hash(i, seed)] : i \in 1..n }

\* migrate_questions, second call: collection.insert_many(...); when it
\* raises the collection stays cleared.
migrate_insert ==
    /\ migPc = "cleared"
    /\ migPc' = "idle"
    /\ undisturbed' = Disturbed
    /\ \E n \in 1..Len(QUESTION_TEMPLATES), seed \in HashSeeds, up \in Ups :
           templates' = IF up THEN SeedDocs(n, seed) ELSE templates
    /\ UNCHANGED <<participants, ledger, envVars, jobPc, queue, localVars, histVars,
                   lastUp>>

\* ---------------------------------------------------- command handlers
\* The replies of the handlers.
JoinedMsg == "is now participating!"

AddErrorMsg == "Sorry, there was an error adding you to participants."

AlreadyMsg == "You're already participating"

LeftMsg == "has stopped participating."

RemoveErrorMsg == "Sorry, there was an error removing you from participants."

NotParticipatingMsg == "You're not currently participating"

DisabledMsg == "The feature is currently disabled."

\* await update.message.reply_text(text)
reply_text(text) == IF reply = Unobserved THEN reply ELSE text

\* /participate
participate(u, c) ==
    /\ jobPc \in AwaitPcs
    /\ \E done \in
           { IF ~is_user_participating(u, c, up1)
             THEN <<add_participant(participants, u, c, up2),
                    IF add_participant_result(u, c, up2)
                    THEN JoinedMsg ELSE AddErrorMsg>>
             ELSE <<participants, AlreadyMsg>> : up1, up2 \in Ups } :
           /\ participants' = done[1]
           /\ reply' = reply_text(done[2])
    /\ UNCHANGED <<templates, ledger, outage, migPc, jobPc, queue, localVars,
                   histVars, undisturbed, lastUp>>

\* /unparticipate
unparticipate(u, c) ==
    /\ jobPc \in AwaitPcs
    /\ \E done \in
           { IF is_user_participating(u, c, up1)
             THEN <<remove_participant(participants, u, c, up2),
                    IF remove_participant_result(participants, u, c, up2)
                    THEN LeftMsg ELSE RemoveErrorMsg>>
             ELSE <<participants, NotParticipatingMsg>> : up1, up2 \in Ups } :
           /\ participants' = done[1]
           /\ reply' = reply_text(done[2])
    /\ UNCHANGED <<templates, ledger, outage, migPc, jobPc, queue, localVars,
                   histVars, undisturbed, lastUp>>

\* Faulty variant: the handler replies and goes on to record a template.
ask_question_recording(u, c) ==
    /\ jobPc \in AwaitPcs
    /\ reply' = reply_text(DisabledMsg)
    /\ \E h \in HashVals : ledger' = mark_question_as_asked(ledger, c, h, TRUE)
    /\ UNCHANGED <<templates, participants, outage, migPc, jobPc, queue,
                   localVars, histVars, undisturbed, lastUp>>

\* /question: the handler returns at its first statement.
ask_question(u, c) ==
    /\ jobPc \in AwaitPcs
    /\ reply' = reply_text(DisabledMsg)
    /\ UNCHANGED <<templates, participants, ledger, outage, migPc, jobPc, queue,
                   localVars, histVars, undisturbed, lastUp>>

\* ------------------------------------------------------- the daily job
Perms(S) ==
    {q \in [1..Cardinality(S) -> S] : \A i, j \in 1..Cardinality(S) : q[i] = q[j] => i = j}

ClearLocals ==
    /\ asked_hashes' = {}
    /\ template' = None
    /\ question' = NoQuestion
    /\ options' = <<>>
    /\ question_hash' = None

ClearHist ==
    /\ outcome' = "none"
    /\ sendLog' = <<>>
    /\ marks' = 0
    /\ resets' = 0
    /\ ledger0' = EmptyRow
    /\ undisturbed' = TRUE
    /\ lastUp' = TRUE

\* daily_question_job up to the loop: the active chats, in the store's order.
daily_question_job ==
    /\ jobPc = "idle"
    /\ \E up \in Ups :
           LET active_chats == get_all_active_chats(up)
           IN  IF active_chats = {}
               THEN /\ lastUp' = up
                    /\ UNCHANGED <<jobPc, queue>>
               ELSE /\ lastUp' = up
                    /\ jobPc' = "count"
                    /\ queue' \in Perms(active_chats)
    /\ UNCHANGED <<storeVars, migPc, localVars, histVars, undisturbed>>

chat_id == Head(queue)

\* The messages generate_random_question returns with options == ["Error"].
NoQuestionsMsg == "Sorry, no questions available!"

TooFewMsg == "Sorry, need at least 3 participants for this type of question!"

NoParticipantsMsg == "Sorry, no participants available for this question!"

InvalidTypeMsg == "Sorry, invalid question type!"

BlockedMsgs == {NoQuestionsMsg, TooFewMsg, NoParticipantsMsg, InvalidTypeMsg}

\* send_scheduled_question returns: its locals are gone, what it logged
\* (result) and the hash it held stay visible while the job sleeps.
Stop(result) ==
    /\ jobPc' = "sleep"
    /\ outcome' = result
    /\ template' = None
    /\ question' = NoQuestion
    /\ options' = <<>>

\* Faulty variant: send_scheduled_question without its options == ["Error"]
\* check.
GeneratedUnchecked(q, o, h) ==
    /\ question_hash' = h
    /\ jobPc' = "send1"
    /\ outcome' = "Ready"
    /\ question' = q
    /\ options' = o
    /\ template' = template

\* generate_random_question returned (q, o, h) to send_scheduled_question,
\* which on options == ["Error"] logs the message q and stops, and otherwise
\* goes on to send.
Generated(q, o, h) ==
    /\ question_hash' = h
    /\ IF o = <<"Error">>
       THEN Stop(q[1])
       ELSE /\ jobPc' = "send1"
            /\ outcome' = "Ready"
            /\ question' = q
            /\ options' = o
            /\ template' = template

\* get_random_question_from_db returned None.
NoTemplate ==
    Generated(<<NoQuestionsMsg>>, <<"Error">>, None)

\* Faulty variant: the delivery goes on to the selector whatever the count.
CheckParticipantsUnchecked ==
    /\ jobPc = "count"
    /\ ledger0' = ledger[chat_id]
    /\ undisturbed' = TRUE
    /\ lastUp' = TRUE
    /\ jobPc' = "asked"
    /\ outcome' = "Selecting"
    /\ UNCHANGED <<template, question, options>>
    /\ UNCHANGED <<storeVars, migPc, queue, asked_hashes, question_hash,
                   sendLog, marks, resets>>

\* send_scheduled_question, the participant check that opens a delivery.
CheckParticipants ==
    /\ jobPc = "count"
    /\ ledger0' = ledger[chat_id]
    /\ \E up \in Ups :
        /\ undisturbed' = up
        /\ lastUp' = up
        /\ IF get_participants_count(chat_id, up) = 0
           THEN Stop("Skipped")
           ELSE /\ jobPc' = "asked"
                /\ outcome' = "Selecting"
                /\ UNCHANGED <<template, question, options>>
    /\ UNCHANGED <<storeVars, migPc, queue, asked_hashes, question_hash,
                   sendLog, marks, resets>>

\* get_random_question_from_db: asked_hashes = get_asked_question_hashes(chat_id)
ReadAsked ==
    /\ jobPc = "asked"
    /\ \E up \in Ups :
        /\ asked_hashes' = get_asked_question_hashes(chat_id, up)
        /\ undisturbed' = (undisturbed /\ up)
        /\ lastUp' = up
    /\ jobPc' = "draw"
    /\ UNCHANGED <<storeVars, migPc, queue, template, question, options,
                   question_hash, histVars>>

\* Faulty variant: a filter that no template passes.
MatchingNone(asked) == {}

\* The $match stage of the first pipeline: {"hash": {"$nin": asked_hashes}},
\* or {} when asked_hashes is empty.
Matching(asked) == {t \in templates : t.hash \notin asked}

\* get_random_question_from_db: the first $sample draw.
Draw ==
    /\ jobPc = "draw"
    /\ asked_hashes' = {}
    /\ \E up \in Ups :
        /\ undisturbed' = (undisturbed /\ up)
        /\ lastUp' = up
        /\ IF ~up
           THEN NoTemplate
           ELSE IF Matching(asked_hashes) # {}
           THEN /\ \E t \in Matching(asked_hashes) : template' = Some(t)
                /\ jobPc' = "names"
                /\ UNCHANGED <<question, options, question_hash, outcome>>
           ELSE /\ jobPc' = "total"
                /\ UNCHANGED <<template, question, options, question_hash, outcome>>
    /\ UNCHANGED <<storeVars, migPc, queue, sendLog, marks, resets, ledger0>>

\* Faulty variant: no reset and retry when nothing matched.
CountTemplatesNoRetry ==
    /\ jobPc = "total"
    /\ UNCHANGED <<undisturbed, lastUp>>
    /\ NoTemplate
    /\ UNCHANGED <<storeVars, migPc, queue, asked_hashes, sendLog, marks,
                   resets, ledger0>>

\* Faulty variant: a count that could not be made is taken for a positive one.
CountTemplatesUnguarded ==
    /\ jobPc = "total"
    /\ \E up \in Ups :
        /\ undisturbed' = (undisturbed /\ up)
        /\ lastUp' = up
        /\ IF up /\ Cardinality(templates) = 0
           THEN NoTemplate
           ELSE /\ jobPc' = "reset"
                /\ UNCHANGED <<template, question, options, question_hash, outcome>>
    /\ UNCHANGED <<storeVars, migPc, queue, asked_hashes, sendLog, marks,
                   resets, ledger0>>

\* get_random_question_from_db: total_questions = count_documents({}).
CountTemplates ==
    /\ jobPc = "total"
    /\ \E up \in Ups :
        /\ undisturbed' = (undisturbed /\ up)
        /\ lastUp' = up
        /\ IF ~up \/ Cardinality(templates) = 0
           THEN NoTemplate
           ELSE /\ jobPc' = "reset"
                /\ UNCHANGED <<template, question, options, question_hash, outcome>>
    /\ UNCHANGED <<storeVars, migPc, queue, asked_hashes, sendLog, marks,
                   resets, ledger0>>

\* get_random_question_from_db: reset_asked_questions(chat_id), result ignored.
ResetLedger ==
    /\ jobPc = "reset"
    /\ \E up \in Ups :
        /\ undisturbed' = (undisturbed /\ up)
        /\ lastUp' = up
        /\ ledger' = reset_asked_questions(ledger, chat_id, up)
        /\ resets' = IF up THEN resets + 1 ELSE resets
    /\ jobPc' = "redraw"
    /\ UNCHANGED <<templates, participants, envVars, migPc, queue, localVars, outcome,
                   sendLog, marks, ledger0>>

\* get_random_question_from_db: the second $sample draw, from the whole pool.
Redraw ==
    /\ jobPc = "redraw"
    /\ \E up \in Ups :
        /\ undisturbed' = (undisturbed /\ up)
        /\ lastUp' = up
        /\ IF ~up \/ templates = {}
           THEN NoTemplate
           ELSE /\ \E t \in templates : template' = Some(t)
                /\ jobPc' = "names"
                /\ UNCHANGED <<question, options, question_hash, outcome>>
    /\ UNCHANGED <<storeVars, migPc, queue, asked_hashes, sendLog, marks,
                   resets, ledger0>>

\* ---------------------------------------------- generate_random_question
\* The fewest participants a member_options question needs, and the most
\* options it gets.
MinMembers == 3

MaxMembers == 6

\* random.sample(names, k): k entries at distinct positions (kept here in
\* list order).
Sample(names, k) ==
    { [i \in 1..k |-> names[SetToSeq(P)[i]]] :
          P \in {Q \in SUBSET (1..Len(names)) : Cardinality(Q) = k} }

\* Faulty variant: the text is returned as it is stored.
format_unrendered(text, member) == text

\* text.format(member=member): every placeholder gives way to the name.
format(text, member) ==
    [i \in 1..Len(text) |-> IF text[i] = Placeholder THEN member ELSE text[i]]

MemberOptions(t, names) ==
    IF Len(names) < MinMembers
    THEN Generated(<<TooFewMsg>>, <<"Error">>, None)
    ELSE \E members_count \in MinMembers..Min(MaxMembers, Len(names)) :
             \E selected_members \in Sample(names, members_count) :
                 Generated(t.question, selected_members, Some(t.hash))

CustomOptions(t, names) ==
    IF names = <<>>
    THEN Generated(<<NoParticipantsMsg>>, <<"Error">>, None)
    ELSE \E member \in Range(names) :
             Generated(format(t.question, member), t.options, Some(t.hash))

\* generate_random_question from the type dispatch on.
GenerateOptions ==
    /\ jobPc = "names"
    /\ LET t == template[1]
       IN  IF t.type = "member_options"
           THEN \E up \in Ups :
                    /\ MemberOptions(t, get_participants_names(chat_id, up))
                    /\ undisturbed' = (undisturbed /\ up)
                    /\ lastUp' = up
           ELSE IF t.type = "custom_options"
           THEN \E up \in Ups :
                    /\ CustomOptions(t, get_participants_names(chat_id, up))
                    /\ undisturbed' = (undisturbed /\ up)
                    /\ lastUp' = up
           ELSE /\ Generated(<<InvalidTypeMsg>>, <<"Error">>, None)
                /\ UNCHANGED <<undisturbed, lastUp>>
    /\ UNCHANGED <<storeVars, migPc, queue, asked_hashes, sendLog, marks,
                   resets, ledger0>>

\* ------------------------------------------------ send_scheduled_question
\* What awaiting send_poll gives: success, a TelegramError whose text holds
\* one of the topic keywords, or any other error.
SendResults == {"ok", "topic_not_found", "other_error"}

\* if question_hash: mark_question_as_asked(chat_id, question_hash)
RecordAsked ==
    IF Truthy(question_hash)
    THEN \E up \in Ups :
            /\ ledger' = mark_question_as_asked(ledger, chat_id, question_hash[1], up)
            /\ marks' = IF up THEN marks + 1 ELSE marks
            /\ undisturbed' = (undisturbed /\ up)
            /\ lastUp' = up
    ELSE UNCHANGED <<ledger, marks, undisturbed, lastUp>>

\* Faulty variant: the template is marked as asked whatever the send gave.
SendPrimaryMarking ==
    /\ jobPc = "send1"
    /\ \E r \in SendResults :
        /\ sendLog' = Append(sendLog, <<"topic", r>>)
        /\ RecordAsked
        /\ IF r = "ok"
           THEN Stop("Success")
           ELSE IF r = "topic_not_found"
           THEN /\ jobPc' = "send2"
                /\ UNCHANGED <<outcome, template, question, options>>
           ELSE Stop("Failed")
    /\ UNCHANGED <<templates, participants, envVars, migPc, queue, asked_hashes,
                   question_hash, resets, ledger0>>

\* Faulty variant: every error of the first send leads to the fallback send.
SendPrimaryAlwaysFallingBack ==
    /\ jobPc = "send1"
    /\ \E r \in SendResults :
        /\ sendLog' = Append(sendLog, <<"topic", r>>)
        /\ IF r = "ok"
           THEN RecordAsked /\ Stop("Success")
           ELSE /\ jobPc' = "send2"
                /\ UNCHANGED <<ledger, marks, undisturbed, lastUp, outcome, template, question,
                               options>>
    /\ UNCHANGED <<templates, participants, envVars, migPc, queue, asked_hashes,
                   question_hash, resets, ledger0>>

\* The send to the topic (message_thread_id = flood_topic_id).
SendPrimary ==
    /\ jobPc = "send1"
    /\ \E r \in SendResults :
        /\ sendLog' = Append(sendLog, <<"topic", r>>)
        /\ IF r = "ok"
           THEN RecordAsked /\ Stop("Success")
           ELSE IF r = "topic_not_found"
           THEN /\ jobPc' = "send2"
                /\ UNCHANGED <<ledger, marks, undisturbed, lastUp, outcome, template, question,
                               options>>
           ELSE /\ Stop("Failed")
                /\ UNCHANGED <<ledger, marks, undisturbed, lastUp>>
    /\ UNCHANGED <<templates, participants, envVars, migPc, queue, asked_hashes,
                   question_hash, resets, ledger0>>

\* Faulty variant: the fallback send is tried again after a topic error.
SendFallbackRetrying ==
    /\ jobPc = "send2"
    /\ \E r \in SendResults :
        /\ sendLog' = Append(sendLog, <<"general", r>>)
        /\ IF r = "ok"
           THEN RecordAsked /\ Stop("Success")
           ELSE IF r = "topic_not_found"
           THEN /\ jobPc' = "send2"
                /\ UNCHANGED <<ledger, marks, undisturbed, lastUp, outcome, template, question,
                               options>>
           ELSE /\ Stop("Failed")
                /\ UNCHANGED <<ledger, marks, undisturbed, lastUp>>
    /\ UNCHANGED <<templates, participants, envVars, migPc, queue, asked_hashes,
                   question_hash, resets, ledger0>>

\* The fallback send to the general chat.
SendFallback ==
    /\ jobPc = "send2"
    /\ \E r \in SendResults :
        /\ sendLog' = Append(sendLog, <<"general", r>>)
        /\ IF r = "ok"
           THEN RecordAsked /\ Stop("Success")
           ELSE /\ Stop("Failed")
                /\ UNCHANGED <<ledger, marks, undisturbed, lastUp>>
    /\ UNCHANGED <<templates, participants, envVars, migPc, queue, asked_hashes,
                   question_hash, resets, ledger0>>

\* Faulty variant: a delivery that did not succeed ends the batch.
SleepAborting ==
    /\ jobPc = "sleep"
    /\ queue' = IF outcome = "Success" THEN Tail(queue) ELSE <<>>
    /\ jobPc' = IF queue' = <<>> THEN "idle" ELSE "count"
    /\ ClearLocals
    /\ ClearHist
    /\ UNCHANGED <<storeVars, migPc>>

\* daily_question_job: await asyncio.sleep(1), then the next chat or the end.
Sleep ==
    /\ jobPc = "sleep"
    /\ queue' = Tail(queue)
    /\ jobPc' = IF Tail(queue) = <<>> THEN "idle" ELSE "count"
    /\ ClearLocals
    /\ ClearHist
    /\ UNCHANGED <<storeVars, migPc>>

Next ==
    \/ migrate_delete
    \/ migrate_insert
    \/ \E c \in Chats : \E u \in ChatMembers(c) : participate(u, c)
    \/ \E c \in Chats : \E u \in ChatMembers(c) : unparticipate(u, c)
    \/ \E c \in Chats : \E u \in ChatMembers(c) : ask_question(u, c)
    \/ daily_question_job
    \/ CheckParticipants
    \/ ReadAsked
    \/ Draw
    \/ CountTemplates
    \/ ResetLedger
    \/ Redraw
    \/ GenerateOptions
    \/ SendPrimary
    \/ SendFallback
    \/ Sleep

\* A step of the daily job.
JobStep ==
    \/ daily_question_job
    \/ CheckParticipants
    \/ ReadAsked
    \/ Draw
    \/ CountTemplates
    \/ ResetLedger
    \/ Redraw
    \/ GenerateOptions
    \/ SendPrimary
    \/ SendFallback
    \/ Sleep

Spec == Init /\ [][Next]_vars

SpecOutage == InitOutage /\ [][Next]_vars

\* The bot is started on a store that the seed script has left: never seeded,
\* or seeded by one of its runs.
InitBot ==
    /\ participants = [c \in Chats |-> [u \in Users |-> 0]]
    /\ ledger = [c \in Chats |-> EmptyRow]
    /\ migPc = "idle"
    /\ jobPc = "idle"
    /\ queue = <<>>
    /\ asked_hashes = {}
    /\ template = None
    /\ question = NoQuestion
    /\ options = <<>>
    /\ question_hash = None
    /\ outcome = "none"
    /\ sendLog = <<>>
    /\ marks = 0
    /\ resets = 0
    /\ ledger0 = EmptyRow
    /\ undisturbed = TRUE
    /\ lastUp = TRUE
    /\ outage = FALSE
    /\ reply = NoReply
    /\ templates \in {{}} \cup {SeedDocs(n, seed) :
                                   n \in 1..Len(QUESTION_TEMPLATES), seed \in HashSeeds}

\* The bot alone (src/main.py): the seed script is not run while it is up.
NextBot ==
    \/ \E c \in Chats : \E u \in ChatMembers(c) : participate(u, c)
    \/ \E c \in Chats : \E u \in ChatMembers(c) : unparticipate(u, c)
    \/ \E c \in Chats : \E u \in ChatMembers(c) : ask_question(u, c)
    \/ JobStep

SpecBot == InitBot /\ [][NextBot]_vars

\* The event loop resumes the job whenever what it awaits (send_poll, sleep)
\* has completed, and its synchronous code runs to the next await.
SpecFair == Init /\ [][Next]_vars /\ WF_vars(JobStep)

\* ================================================================ claims
Exclusion(c) == {h \in HashVals : ledger[c][h] > 0}

RowSet(row) == {h \in HashVals : row[h] > 0}

TemplateIds == {t.hash : t \in templates}

ValidTypes == {"member_options", "custom_options"}

SelectingPcs == {"asked", "draw", "total", "reset", "redraw", "names"}

SendingPcs == {"send1", "send2"}

\* ---- C1
\* C1 as claimed, taken when neither the seed script nor the daily job is
\* running: for every chat the asked hashes are hashes of templates in the
\* store.
C1_ExclusionWithinTemplates ==
    (migPc = "idle" /\ jobPc = "idle")
        => \A c \in Chats : Exclusion(c) \subseteq TemplateIds

\* ---- C2
\* A step of a confirmed send: the awaited send_poll gave success.
ConfirmedSend == jobPc \in SendingPcs /\ outcome' = "Success"

\* C2 as claimed: the ledger changes only in the step in which a send is
\* confirmed successful.
C2_NoWriteBeforeConfirmedSend ==
    [][ledger' # ledger => ConfirmedSend]_vars

\* C2 amended: an asked-record is created only in the step in which a send is
\* confirmed, for the served chat and the selected template; records are
\* deleted only by the selector's reset, for the served chat; nothing else
\* writes the ledger.
C2_OnlyResetBeforeConfirmedSend ==
    [][\A c \in Chats : \A h \in HashVals :
          /\ ledger'[c][h] > ledger[c][h] =>
                 ConfirmedSend /\ c = chat_id /\ question_hash = Some(h)
          /\ ledger'[c][h] < ledger[c][h] =>
                 jobPc = "reset" /\ c = chat_id]_vars

\* The selector has reset a non-empty ledger and the poll is not sent yet.
C2_Witness ==
    jobPc = "send1" /\ resets = 1 /\ RowSet(ledger0) # {} /\ Exclusion(chat_id) = {}

\* ---- C3
\* The delivery started with every template asked, in a well-formed store.
Exhausted ==
    /\ undisturbed
    /\ TemplateIds # {}
    /\ RowSet(ledger0) = TemplateIds
    /\ \A t \in templates : t.type \in ValidTypes

\* C3: from an exhausted ledger, with MinMembers participants or more, the
\* selection ends Ready, and when the delivery succeeds the chat's exclusion
\* set holds the delivered template and nothing else.
C3_Exhaustion ==
    /\ [][(/\ jobPc \in SelectingPcs
           /\ jobPc' \notin SelectingPcs
           /\ Exhausted
           /\ get_participants_count(chat_id, TRUE) >= MinMembers)
          => (jobPc' = "send1" /\ outcome' = "Ready")]_vars
    /\ [](jobPc = "sleep" /\ outcome = "Success" /\ Exhausted
          => /\ question_hash # None
             /\ Exclusion(chat_id) = {question_hash[1]}
             /\ ledger[chat_id][question_hash[1]] = 1)

\* A successful delivery from an exhausted ledger of two templates.
C3_Witness ==
    /\ jobPc = "sleep"
    /\ outcome = "Success"
    /\ Exhausted
    /\ Cardinality(TemplateIds) = 2
    /\ resets = 1

\* ---- C4
\* C4 as claimed: a blocked delivery, undisturbed by the seed script, sent no
\* poll and left the chat's ledger row as it was when the delivery started.
C4_BlockedLeavesLedger ==
    (jobPc = "sleep" /\ outcome \in BlockedMsgs /\ undisturbed)
        => sendLog = <<>> /\ ledger[chat_id] = ledger0

\* C4 amended: a blocked delivery sent no poll (no poll is ever sent with the
\* error marker as its options) and wrote no asked-record; the chat's ledger
\* row is as it was when the delivery started, unless the selector reset it,
\* and then it is empty.
C4_BlockedWritesNothingButReset ==
    /\ jobPc \in SendingPcs => options # <<"Error">>
    /\ (jobPc = "sleep" /\ outcome \in BlockedMsgs)
           => /\ sendLog = <<>>
              /\ marks = 0
              /\ ledger[chat_id] = IF resets > 0 THEN EmptyRow ELSE ledger0

\* A delivery blocked for want of participants after the selector's reset.
C4_Witness ==
    /\ jobPc = "sleep"
    /\ outcome = TooFewMsg
    /\ resets = 1
    /\ ledger0 # EmptyRow
    /\ ledger[chat_id] = EmptyRow

\* ---- C5
\* C5 as claimed: after a successful delivery (undisturbed by the seed script)
\* the delivered template's hash is in the chat's exclusion set.
C5_SuccessIsRecorded ==
    (jobPc = "sleep" /\ outcome = "Success" /\ undisturbed)
        => question_hash # None /\ question_hash[1] \in Exclusion(chat_id)

\* ---- C6
\* The first send failed with an error outside the topic keywords, or the
\* fallback send failed.
SendFailed ==
    \/ Len(sendLog) >= 1 /\ sendLog[1][2] = "other_error"
    \/ Len(sendLog) >= 2 /\ sendLog[2][2] # "ok"

\* C6: once a send has failed so, the delivery is over and failed, that send
\* was its last, and it has written no asked-record.
C6_FailedSendRecordsNothing ==
    SendFailed
        => /\ jobPc = "sleep"
           /\ outcome = "Failed"
           /\ sendLog[Len(sendLog)][2] # "ok"
           /\ Len(sendLog) <= 2
           /\ marks = 0
           /\ \A h \in HashVals : ledger[chat_id][h] <= ledger0[h]

\* A delivery whose fallback send failed.
C6_Witness ==
    /\ jobPc = "sleep"
    /\ outcome = "Failed"
    /\ Len(sendLog) = 2
    /\ sendLog[1][2] = "topic_not_found"

\* ---- C7
\* C7 as claimed: when the topic send fails with a topic error, one more send
\* is made, to the general chat, and when that succeeds the template is
\* recorded once.
C7_FallbackRecordsOnce ==
    /\ (Len(sendLog) >= 1 /\ sendLog[1][2] = "topic_not_found" /\ jobPc = "sleep")
           => Len(sendLog) = 2 /\ sendLog[2][1] = "general"
    /\ (jobPc = "sleep" /\ undisturbed /\ Len(sendLog) = 2 /\ sendLog[2][2] = "ok")
           => /\ marks = 1
              /\ question_hash # None
              /\ ledger[chat_id][question_hash[1]] = 1

\* ---- C8
\* C8: in every ledger the system reaches, for every chat and hash, marking
\* twice gives the ledger that marking once gives, with one document for the
\* pair and no other chat's row touched; and no pair ever has two documents.
C8_MarkIdempotent ==
    /\ \A c \in Chats : \A h \in HashVals : ledger[c][h] <= 1
    /\ \A c \in Chats : \A h \in HashVals :
          LET once  == mark_question_as_asked(ledger, c, h, TRUE)
              twice == mark_question_as_asked(once, c, h, TRUE)
          IN  /\ \A d \in Chats : RowSet(twice[d]) = RowSet(once[d])
              /\ twice[c][h] = 1
              /\ h \in RowSet(once[c])
              /\ \A d \in Chats \ {c} : once[d] = ledger[d]

\* A delivery has recorded its template while the other chat has records too.
C8_Witness ==
    /\ jobPc = "sleep"
    /\ marks = 1
    /\ \A c \in Chats : Exclusion(c) # {}

\* ---- C9
\* C9: a delivery that ran the selector, undisturbed by the seed script, ends
\* with the no-questions message exactly when the store holds no template.
C9_NoStarvation ==
    (jobPc = "sleep" /\ undisturbed /\ outcome # "Skipped")
        => (outcome = NoQuestionsMsg <=> templates = {})

\* A delivery from an exhausted ledger went on to send.
C9_Witness ==
    /\ jobPc = "sleep"
    /\ undisturbed
    /\ resets = 1
    /\ outcome \in {"Success", "Failed"}
    /\ templates # {}

\* ---- C10
Distinct(s) == \A i, j \in 1..Len(s) : s[i] = s[j] => i = j

\* C10 as claimed: for a member_options template the selector blocks with
\* the too-few message under MinMembers participants, and otherwise returns
\* between MinMembers and min(MaxMembers, count) options, pairwise distinct,
\* each the name of a participant of the chat.
C10_MemberOptions ==
    [][(jobPc = "names" /\ jobPc' # "names" /\ template[1].type = "member_options")
       => LET n == get_participants_count(chat_id, TRUE)
              names == Range(get_participants_names(chat_id, TRUE))
          IN  IF n < MinMembers
              THEN jobPc' = "sleep" /\ outcome' = TooFewMsg
              ELSE /\ jobPc' = "send1"
                   /\ Len(options') >= MinMembers
                   /\ Len(options') <= Min(MaxMembers, n)
                   /\ Range(options') \subseteq names
                   /\ Distinct(options')]_vars

\* ---- C11
\* C11: for a custom_options template the selector blocks with the
\* no-participants message when the chat has no participant (and otherwise
\* only when the names could not be read); else the options are the
\* template's list, in its order, and the question is the template's text
\* with every placeholder replaced by the name of one participant of the
\* chat, so that no placeholder remains.
C11_CustomOptions ==
    [][(jobPc = "names" /\ jobPc' # "names" /\ template[1].type = "custom_options")
       => LET t == template[1]
              names == get_participants_names(chat_id, TRUE)
              blocked == /\ jobPc' = "sleep"
                         /\ outcome' = NoParticipantsMsg
                         /\ question_hash' = None
              ready == /\ jobPc' = "send1"
                       /\ outcome' = "Ready"
                       /\ options' = t.options
                       /\ question_hash' = Some(t.hash)
                       /\ Len(question') = Len(t.question)
                       /\ Placeholder \notin Range(question')
                       /\ \E member \in Range(names) :
                              \A i \in 1..Len(t.question) :
                                  question'[i] = IF t.question[i] = Placeholder
                                                 THEN member ELSE t.question[i]
          IN  IF names = <<>> THEN blocked
              ELSE ready \/ (blocked /\ ~undisturbed')]_vars

\* A custom_options question is ready: its text carries a participant's name.
C11_Witness ==
    /\ jobPc = "send1"
    /\ template # None
    /\ template[1].type = "custom_options"
    /\ options = <<"Yes", "No">>
    /\ question = <<"Is ", "Bob", " lazy?">>

\* The names of a chat with participants could not be read.
C11_WitnessBlocked ==
    /\ jobPc = "sleep"
    /\ outcome = NoParticipantsMsg
    /\ get_participants_count(chat_id, TRUE) > 0

\* ---- C12
\* C12: a delivery for a chat without participants ends at the participant
\* check as skipped: the selector is not run (no template hash, no reset), no
\* poll is sent and the ledger is as it was, also when every template of the
\* store had been asked.
C12_NoParticipantsSkips ==
    /\ [][(/\ jobPc = "count"
           /\ jobPc' # "count"
           /\ get_participants_count(chat_id, TRUE) = 0)
          => (jobPc' = "sleep" /\ outcome' = "Skipped" /\ ledger' = ledger)]_vars
    /\ [](jobPc = "sleep" /\ outcome = "Skipped"
          => /\ sendLog = <<>>
             /\ marks = 0
             /\ resets = 0
             /\ question_hash = None
             /\ ledger[chat_id] = ledger0)

\* A skipped delivery for a chat whose ledger holds every template.
C12_Witness ==
    /\ jobPc = "sleep"
    /\ outcome = "Skipped"
    /\ get_participants_count(chat_id, TRUE) = 0
    /\ TemplateIds # {}
    /\ RowSet(ledger0) = TemplateIds

\* ---- C13
\* Exactly the pair (c, u) of the registry changes, from `was` to `is`.
OnlyChanged(c, u, was, is) ==
    /\ participants[c][u] = was
    /\ participants' = [participants EXCEPT ![c][u] = is]

\* C13: the registry never holds two documents for a (chat, user) pair.  In
\* every registry the system reaches: a join makes the user a participant, a
\* second join changes nothing, a leave removes the document and reports it,
\* a leave of a non-participant removes nothing and reports nothing, a join
\* after a leave makes the user a participant again.  A command changes the
\* registry only by adding one absent pair (replying that the user joined)
\* or removing one present pair (replying that the user left).
C13_RegistryUnique ==
    /\ [](\A c \in Chats : \A u \in Users : participants[c][u] <= 1)
    /\ [](\A c \in Chats : \A u \in Users :
            LET joined == add_participant(participants, u, c, TRUE)
                again  == add_participant(joined, u, c, TRUE)
                left   == remove_participant(joined, u, c, TRUE)
                back   == add_participant(left, u, c, TRUE)
            IN  /\ joined[c][u] = 1
                /\ again = joined
                /\ remove_participant_result(joined, u, c, TRUE)
                /\ left[c][u] = 0
                /\ ~remove_participant_result(left, u, c, TRUE)
                /\ remove_participant(left, u, c, TRUE) = left
                /\ back = joined
                /\ \A d \in Chats : \A v \in Users :
                       <<d, v>> # <<c, u>> => left[d][v] = participants[d][v])
    /\ [][participants' # participants
             => \E c \in Chats : \E u \in Users :
                    \/ OnlyChanged(c, u, 0, 1) /\ reply' = JoinedMsg
                    \/ OnlyChanged(c, u, 1, 0) /\ reply' = LeftMsg]_vars
    /\ [][reply' # reply
             => IF reply' \in {JoinedMsg, LeftMsg}
                THEN participants' # participants
                ELSE participants' = participants]_vars

\* A user has left a chat in which another user participates.
C13_Witness ==
    /\ reply = LeftMsg
    /\ participants["c1"][1] = 0
    /\ participants["c1"][2] = 1

\* ---- C14
\* C14 as claimed, for deliveries undisturbed by the seed script: a template
\* drawn by a selection that did not reset the ledger is outside the exclusion
\* set the delivery started with, and a successful delivery without a reset
\* adds its template, a new one, to the exclusion set, so that consecutive
\* deliveries from an empty ledger deliver distinct templates.
C14_NoRepeatBeforeReset ==
    /\ (jobPc \in {"names"} \cup SendingPcs /\ undisturbed /\ resets = 0)
           => template[1].hash \notin RowSet(ledger0)
    /\ (jobPc = "sleep" /\ outcome = "Success" /\ undisturbed /\ resets = 0)
           => /\ question_hash # None
              /\ question_hash[1] \notin RowSet(ledger0)
              /\ Exclusion(chat_id) = RowSet(ledger0) \cup {question_hash[1]}

\* The first half of C14 alone: what a selection without a reset draws is
\* outside the exclusion set the delivery started with.
C14_DrawnOutsideExclusion ==
    (jobPc \in {"names"} \cup SendingPcs /\ undisturbed /\ resets = 0)
        => template[1].hash \notin RowSet(ledger0)

\* ---- C15
\* C15 as claimed: after a successful scheduled delivery during which no
\* seed-script step ran, whatever commands were handled while it awaited its
\* sends, the ledger holds one document at most per (chat, hash) pair and the
\* chat's exclusion set is within the hashes of the store's templates.
C15_InterleavingKeepsLedgerSound ==
    (jobPc = "sleep" /\ outcome = "Success" /\ migPc = "idle" /\ undisturbed)
        => /\ \A c \in Chats : \A h \in HashVals : ledger[c][h] <= 1
           /\ Exclusion(chat_id) \subseteq TemplateIds

\* What holds of C15: no step of a command or of an undisturbed delivery
\* takes an exclusion set out of the store's hashes, no pair has two
\* documents, and a running job always has a next step.
C15_RaceKeepsLedgerSound ==
    /\ [](\A c \in Chats : \A h \in HashVals : ledger[c][h] <= 1)
    /\ [][(/\ templates' = templates
           /\ undisturbed /\ undisturbed'
           /\ \A c \in Chats : Exclusion(c) \subseteq TemplateIds)
          => \A c \in Chats : RowSet(ledger'[c]) \subseteq TemplateIds]_vars
    /\ [](jobPc # "idle" => ENABLED JobStep)

\* ---- C16
\* C16: a run of the job queues the chats that have a participant, each once;
\* it serves the head of the queue, one delivery per queued chat, going on to
\* the selector when the chat still has a participant; whatever the outcome
\* of a delivery the job then drops that chat alone and goes on with the next
\* one; and every run of the job ends.
C16_JobServesEachChatOnce ==
    /\ [][(jobPc = "idle" /\ jobPc' # "idle")
          => /\ jobPc' = "count"
             /\ Range(queue') = get_all_active_chats(TRUE)
             /\ Distinct(queue')]_vars
    /\ [][(jobPc # "idle" /\ queue' # queue)
          => /\ jobPc = "sleep"
             /\ queue' = Tail(queue)
             /\ jobPc' = IF queue' = <<>> THEN "idle" ELSE "count"]_vars
    /\ [][(jobPc = "sleep" /\ jobPc' # "sleep") => queue' = Tail(queue)]_vars
    /\ [][(jobPc' = "count" /\ jobPc # "count") => jobPc \in {"idle", "sleep"}]_vars
    /\ [][(/\ jobPc = "count"
           /\ jobPc' # "count"
           /\ get_participants_count(chat_id, TRUE) > 0)
          => jobPc' = "asked"]_vars
    /\ [](jobPc = "idle" <=> queue = <<>>)
    /\ [](Distinct(queue))
    /\ (jobPc # "idle") ~> (jobPc = "idle")

\* A delivery has failed and another chat is still queued.
C16_Witness ==
    /\ jobPc = "sleep"
    /\ outcome = "Failed"
    /\ Len(queue) = 2

\* ---- C17
\* The send log after the send to the topic failed with a topic error.
TopicFailed == << <<"topic", "topic_not_found">> >>

\* C17: a delivery that entered the selector is Selecting with nothing sent,
\* then Ready to send with nothing sent, then in the fallback send only after
\* the one send to the topic failed with a topic error, and it ends Success,
\* Blocked or Failed with two sends at most; Blocked ends it from Selecting
\* alone, with nothing sent; an asked-record is written only in Success, and
\* once at most; the outcome stays until the job moves on.
C17_DeliveryStateMachine ==
    /\ [](jobPc \in SelectingPcs
            => outcome = "Selecting" /\ sendLog = <<>> /\ marks = 0)
    /\ [](jobPc = "send1" => outcome = "Ready" /\ sendLog = <<>> /\ marks = 0)
    /\ [](jobPc = "send2" => outcome = "Ready" /\ sendLog = TopicFailed /\ marks = 0)
    /\ [](jobPc = "sleep" /\ outcome # "Skipped"
            => /\ outcome \in {"Success", "Failed"} \cup BlockedMsgs
               /\ Len(sendLog) <= 2
               /\ marks <= 1
               /\ (marks > 0 => outcome = "Success")
               /\ (outcome \in BlockedMsgs => sendLog = <<>>)
               /\ (outcome = "Success"
                      => sendLog # <<>> /\ sendLog[Len(sendLog)][2] = "ok")
               /\ (Len(sendLog) = 2 => <<sendLog[1]>> = TopicFailed))
    /\ [][(jobPc \in SelectingPcs)
             => (\/ jobPc' \in SelectingPcs
                 \/ jobPc' = "send1"
                 \/ jobPc' = "sleep" /\ outcome' \in BlockedMsgs)]_vars
    /\ [][jobPc = "send1"
             => (\/ jobPc' = "send1" /\ sendLog' = sendLog
                 \/ jobPc' = "send2"
                 \/ jobPc' = "sleep" /\ outcome' \in {"Success", "Failed"})]_vars
    /\ [][jobPc = "send2"
             => (\/ jobPc' = "send2" /\ sendLog' = sendLog
                 \/ jobPc' = "sleep" /\ outcome' \in {"Success", "Failed"})]_vars
    /\ [][(jobPc = "sleep" /\ jobPc' = "sleep")
             => (outcome' = outcome /\ sendLog' = sendLog /\ marks' = marks)]_vars

\* A delivery that succeeded by the fallback send.
C17_Witness ==
    /\ jobPc = "sleep"
    /\ outcome = "Success"
    /\ Len(sendLog) = 2
    /\ marks = 1

FailedCall(pcs) == jobPc \in pcs /\ jobPc' # jobPc /\ ~lastUp'

\* C19: in every state the system reaches, each store function, when the
\* store does not answer, gives its no-data result and leaves the store as
\* it is; a job that cannot list the active chats serves none; a delivery
\* whose participant count cannot be read is skipped, sends no poll and
\* changes no stored state; an exclusion set that cannot be read is taken as
\* empty; a selection whose draw, count or names cannot be read is Blocked; a
\* reset or a record that fails changes nothing.
C19_StoreUnavailable ==
    /\ [](\A c \in Chats :
            /\ get_asked_question_hashes(c, FALSE) = {}
            /\ get_participants_names(c, FALSE) = <<>>
            /\ get_participants_count(c, FALSE) = 0
            /\ reset_asked_questions(ledger, c, FALSE) = ledger
            /\ ~reset_asked_questions_result(c, FALSE)
            /\ \A h \in HashVals :
                   /\ mark_question_as_asked(ledger, c, h, FALSE) = ledger
                   /\ ~mark_question_as_asked_result(c, h, FALSE)
            /\ \A u \in Users :
                   /\ ~is_user_participating(u, c, FALSE)
                   /\ add_participant(participants, u, c, FALSE) = participants
                   /\ ~add_participant_result(u, c, FALSE)
                   /\ remove_participant(participants, u, c, FALSE) = participants
                   /\ ~remove_participant_result(participants, u, c, FALSE))
    /\ [](get_all_active_chats(FALSE) = {})
    /\ [][(jobPc = "idle" /\ ~lastUp') => (jobPc' = "idle" /\ queue' = <<>>)]_vars
    /\ [][FailedCall({"count"})
          => /\ jobPc' = "sleep"
             /\ outcome' = "Skipped"
             /\ sendLog' = <<>>
             /\ UNCHANGED <<templates, participants, ledger>>]_vars
    /\ [][FailedCall({"asked"}) => (jobPc' = "draw" /\ asked_hashes' = {})]_vars
    /\ [][FailedCall({"draw", "total", "redraw"})
          => /\ jobPc' = "sleep"
             /\ outcome' = NoQuestionsMsg
             /\ sendLog' = <<>>
             /\ UNCHANGED <<templates, participants, ledger>>]_vars
    /\ [][FailedCall({"names"})
          => /\ jobPc' = "sleep"
             /\ outcome' \in {TooFewMsg, NoParticipantsMsg}
             /\ sendLog' = <<>>
             /\ UNCHANGED <<templates, participants, ledger>>]_vars
    /\ [][FailedCall({"reset"} \cup SendingPcs)
          => UNCHANGED <<templates, participants, ledger, marks, resets>>]_vars

\* A selection has ended Blocked because the store stopped answering after
\* the participant count was read, in a seeded store.
C19_Witness ==
    /\ jobPc = "sleep"
    /\ outcome = NoQuestionsMsg
    /\ ~lastUp
    /\ templates # {}
    /\ get_participants_count(chat_id, TRUE) > 0

\* ---- C20
\* C20: documents leave the ledger only in the selector's reset step, only
\* those of the chat being served, once at most in a delivery; and in a
\* delivery undisturbed by the seed script that step is taken only when the
\* store holds a template and the chat's exclusion set holds the hash of
\* every template of the store.
C20_ResetOnlyWhenExhausted ==
    /\ [][\A c \in Chats : \A h \in HashVals :
             ledger'[c][h] < ledger[c][h]
                 => /\ jobPc = "reset"
                    /\ outcome = "Selecting"
                    /\ c = chat_id
                    /\ resets = 0
                    /\ resets' = 1
                    /\ undisturbed
                           => /\ templates # {}
                              /\ TemplateIds \subseteq Exclusion(c)]_vars
    /\ [][(jobPc = "reset" /\ undisturbed)
             => (templates # {} /\ TemplateIds \subseteq Exclusion(chat_id))]_vars
    /\ [](resets <= 1)

\* The selector has just reset an exhausted ledger of two templates.
C20_Witness ==
    /\ jobPc = "redraw"
    /\ undisturbed
    /\ resets = 1
    /\ Cardinality(TemplateIds) = 2
    /\ RowSet(ledger0) = TemplateIds
    /\ ledger[chat_id] = EmptyRow

\* ---- C21
\* The names of the participant documents of a chat.
NamesIn(c) == {first_name(u) : u \in {v \in Users : participants[c][v] > 0}}

\* C21: a step of the job changes no registry, and the ledger of no chat but
\* the one it is serving; the exclusion set a selection reads is the one of
\* the chat it serves; a /participate or /unparticipate in a chat changes no
\* ledger and the registry of no other chat; and the names among the options
\* generated for a chat (the options of a member_options question, the name
\* put into the text of a custom_options question) are names of participants
\* of that chat.
C21_GroupsIsolated ==
    /\ [][JobStep
            => /\ participants' = participants
               /\ \A c \in Chats :
                      ledger'[c] # ledger[c] => (jobPc # "idle" /\ c = chat_id)]_vars
    /\ [][(jobPc = "asked" /\ jobPc' = "draw")
            => asked_hashes' = Exclusion(chat_id)]_vars
    /\ [][\A c \in Chats : \A u \in ChatMembers(c) :
             (participate(u, c) \/ unparticipate(u, c))
                 => /\ ledger' = ledger
                    /\ \A other \in Chats \ {c} :
                           participants'[other] = participants[other]]_vars
    /\ [][(jobPc = "names" /\ jobPc' = "send1")
            => IF template[1].type = "member_options"
               THEN Range(options') \subseteq NamesIn(chat_id)
               ELSE \E member \in NamesIn(chat_id) :
                        question' = format(template[1].question, member)]_vars

\* The ledger of c1 has just been reset while c2, whose participants are
\* not those of c1, keeps a recorded template.
C21_Witness ==
    /\ jobPc = "redraw"
    /\ resets = 1
    /\ chat_id = "c1"
    /\ ledger["c1"] = EmptyRow
    /\ ledger["c2"] # EmptyRow
    /\ NamesIn("c1") # NamesIn("c2")

====
